---- MODULE Spec2Model ----
(***************************************************************************)
(* A model of netfuncs.py: the IPv4 address codec, the subnet mask         *)
(* calculator, the same-subnet test, the router lookup and the report      *)
(* driver.                                                                 *)
(*                                                                         *)
(* Python strings are sequences of one-character strings.  Python ints are *)
(* unbounded; they are kept as two limbs <<hi, lo>> standing for           *)
(* hi * 2^16 + lo with lo in 0..2^16-1 and hi any integer (two's           *)
(* complement, sign carried by hi), so that 32-bit values and the values   *)
(* beyond them that malformed input produces are all representable.        *)
(***************************************************************************)
EXTENDS Integers, Sequences, FiniteSets

VARIABLES
    codec_hist,     \* codec harness: the input, then the result of each call
    mask_in,        \* mask harness: [ip1, ip2, pre, n, m] the drawn inputs
    mask_out,       \* mask harness: results of the calls made so far
    routers,        \* router table: sequence of [ip, netmask], insertion order
    routers_alt,    \* the same routers inserted in another order
    ip,             \* the address looked up
    find_out,       \* lookup harness: result of each lookup made so far
    same_out,       \* lookup harness: ips_same_subnet of ip and each router
    argv,           \* driver: command line
    src_dest_pairs, \* driver: the "src-dest" list of the input file
    pc,             \* driver: position in main
    stdout,         \* driver: lines printed so far
    stderr,         \* driver: usage message or traceback
    router_host_map \* driver: print_ip_routers' dictionary, insertion order

vars == <<codec_hist, mask_in, mask_out, routers, routers_alt, ip, find_out,
          same_out, argv, src_dest_pairs, pc, stdout, stderr, router_host_map>>

codecVars  == <<codec_hist>>
maskVars   == <<mask_in, mask_out>>
routerVars == <<routers, routers_alt, ip, find_out, same_out>>
driverVars == <<argv, src_dest_pairs, pc, stdout, stderr, router_host_map>>

(***************************************************************************)
(* Bounds of the harnesses.                                                *)
(***************************************************************************)
MaxParts == 5
MaxRouters == 2
MaxPairs == 2
MaxPrefix == 33

(***************************************************************************)
(* Characters and strings.                                                 *)
(***************************************************************************)
DigitChars == <<"0", "1", "2", "3", "4", "5", "6", "7", "8", "9">>

IsDigit(c) == \E d \in 1..10 : DigitChars[d] = c

DigitVal(c) == (CHOOSE d \in 1..10 : DigitChars[d] = c) - 1

\* Code point order of the characters the model uses.
CharOrd(c) ==
    CASE c = " " -> 32
      [] c = "+" -> 43
      [] c = "-" -> 45
      [] c = "." -> 46
      [] c = "/" -> 47
      [] IsDigit(c) -> 48 + DigitVal(c)
      [] OTHER -> 120

\* Python's < on str: lexicographic by code point, a proper prefix first.
RECURSIVE str_lt(_, _)
str_lt(a, b) ==
    IF b = <<>> THEN FALSE
    ELSE IF a = <<>> THEN TRUE
    ELSE IF CharOrd(a[1]) # CharOrd(b[1]) THEN CharOrd(a[1]) < CharOrd(b[1])
    ELSE str_lt(Tail(a), Tail(b))

\* str.split(sep) for a one-character separator.
RECURSIVE split(_, _)
split(s, sep) ==
    IF \A i \in 1..Len(s) : s[i] # sep THEN <<s>>
    ELSE LET k == CHOOSE i \in 1..Len(s) :
                      s[i] = sep /\ \A j \in 1..(i - 1) : s[j] # sep
         IN <<SubSeq(s, 1, k - 1)>> \o split(SubSeq(s, k + 1, Len(s)), sep)

\* int(s) succeeds on an optional sign followed by one or more digits
\* (leading zeros allowed); the alphabet of the model holds no whitespace
\* and no underscore.
int_body(s) == IF s # <<>> /\ s[1] \in {"-", "+"} THEN Tail(s) ELSE s

int_ok(s) ==
    /\ int_body(s) # <<>>
    /\ \A i \in 1..Len(int_body(s)) : IsDigit(int_body(s)[i])

RECURSIVE digits_val(_)
digits_val(s) ==
    IF s = <<>> THEN 0
    ELSE 10 * digits_val(SubSeq(s, 1, Len(s) - 1)) + DigitVal(s[Len(s)])

int(s) == IF s[1] = "-" THEN 0 - digits_val(int_body(s))
          ELSE digits_val(int_body(s))

\* str(n) for an int: canonical decimal.
RECURSIVE nat_str(_)
nat_str(n) ==
    IF n < 10 THEN <<DigitChars[n + 1]>>
    ELSE nat_str(n \div 10) \o <<DigitChars[(n % 10) + 1]>>

str(n) == IF n < 0 THEN <<"-">> \o nat_str(0 - n) ELSE nat_str(n)

(***************************************************************************)
(* Python ints as limbs.                                                   *)
(***************************************************************************)
LimbBase == 2 ^ 16

PyInt(n) == <<n \div LimbBase, n % LimbBase>>

\* The small int a limb pair stands for (used only where it fits).
small(x) == x[1] * LimbBase + x[2]

\* a | b and a & b on ints of either sign (floor division by 2 peels the
\* low bit of a two's complement number; 0 and -1 are the fixed points).
RECURSIVE int_or(_, _)
int_or(a, b) ==
    IF a = 0 THEN b
    ELSE IF b = 0 THEN a
    ELSE IF a = -1 \/ b = -1 THEN -1
    ELSE (IF a % 2 = 1 \/ b % 2 = 1 THEN 1 ELSE 0)
         + 2 * int_or(a \div 2, b \div 2)

RECURSIVE int_and(_, _)
int_and(a, b) ==
    IF a = 0 \/ b = 0 THEN 0
    ELSE IF a = -1 THEN b
    ELSE IF b = -1 THEN a
    ELSE (IF a % 2 = 1 /\ b % 2 = 1 THEN 1 ELSE 0)
         + 2 * int_and(a \div 2, b \div 2)

BitOr(x, y) == <<int_or(x[1], y[1]), int_or(x[2], y[2])>>

BitAnd(x, y) == <<int_and(x[1], y[1]), int_and(x[2], y[2])>>

\* x << k and x >> k for k >= 0 (a negative count raises; callers test it):
\* whole limbs first, then the remaining k < 16 bits.
RECURSIVE Shl(_, _)
Shl(x, k) ==
    IF k >= 16 THEN Shl(<<x[1] * LimbBase + x[2], 0>>, k - 16)
    ELSE <<x[1] * (2 ^ k) + ((x[2] * (2 ^ k)) \div LimbBase),
           (x[2] * (2 ^ k)) % LimbBase>>

RECURSIVE Shr(_, _)
Shr(x, k) ==
    IF k >= 16 THEN Shr(<<x[1] \div LimbBase, x[1] % LimbBase>>, k - 16)
    ELSE <<x[1] \div (2 ^ k),
           (x[2] \div (2 ^ k)) + (x[1] % (2 ^ k)) * (2 ^ (16 - k))>>

(***************************************************************************)
(* Results of calls: a returned value or a raised exception.               *)
(***************************************************************************)
Return(v) == [exc |-> "", val |-> v]

Raise(e) == [exc |-> e, val |-> <<>>]

Raised(r) == r.exc # ""

\* Python's None, a value no string equals.
None == <<"None">>

(***************************************************************************)
(* ipv4_to_value                                                           *)
(***************************************************************************)
RECURSIVE ipv4_to_value_loop(_, _, _, _)
ipv4_to_value_loop(sections, i, result, num) ==
    IF i > Len(sections) THEN Return(result)
    ELSE IF ~int_ok(sections[i]) THEN Raise("ValueError")
    ELSE IF num < 0 THEN Raise("ValueError")
    ELSE ipv4_to_value_loop(
             sections, i + 1,
             BitOr(Shl(PyInt(int(sections[i])), num), result), num - 8)

reversed(res) == [i \in 1..Len(res) |-> res[Len(res) + 1 - i]]

\* A plausible slip: the first part taken as the least significant octet.
ipv4_to_value_lsb_first(ipv4_addr) ==
    ipv4_to_value_loop(reversed(split(ipv4_addr, ".")), 1, PyInt(0), 24)

ipv4_to_value(ipv4_addr) ==
    ipv4_to_value_loop(split(ipv4_addr, "."), 1, PyInt(0), 24)

(***************************************************************************)
(* value_to_ipv4                                                           *)
(***************************************************************************)
and_me == 255

RECURSIVE value_to_ipv4_octets(_, _, _)
value_to_ipv4_octets(addr, i, res) ==
    IF i >= 32 THEN res
    ELSE value_to_ipv4_octets(
             addr, i + 8,
             <<small(BitAnd(Shr(addr, i), PyInt(and_me)))>> \o res)

\* functools.reduce(lambda a, b: str(a) + "." + str(b), res)
RECURSIVE reduce_dotted(_, _, _)
reduce_dotted(acc, res, i) ==
    IF i > Len(res) THEN acc
    ELSE reduce_dotted(acc \o <<".">> \o str(res[i]), res, i + 1)

reduce(res) == reduce_dotted(str(res[1]), res, 2)

\* A plausible slip: res.append in place of res.insert(0, ...).
value_to_ipv4_append(addr) ==
    reduce(reversed(value_to_ipv4_octets(addr, 0, <<>>)))

value_to_ipv4(addr) == reduce(value_to_ipv4_octets(addr, 0, <<>>))

(***************************************************************************)
(* set_bit, set_bits, get_subnet_mask_value                                *)
(***************************************************************************)
\* num | (1 << digit); a negative shift count raises ValueError.
set_bit(num, digit) ==
    IF digit < 0 THEN Raise("ValueError")
    ELSE Return(BitOr(num, Shl(PyInt(1), digit)))

\* range(begin, end): one set_bit per i, an exception ending the loop.
RECURSIVE set_bits_loop(_, _, _)
RECURSIVE set_bits_next(_, _, _)
set_bits_loop(num, i, end) ==
    IF i >= end THEN Return(num) ELSE set_bits_next(set_bit(num, i), i, end)

set_bits_next(r, i, end) ==
    IF Raised(r) THEN r ELSE set_bits_loop(r.val, i + 1, end)

\* A plausible slip: range(begin, end - 1), the top bit never set.
set_bits_short(num, begin, end) == set_bits_loop(num, begin, end - 1)

set_bits(num, begin, end) == set_bits_loop(num, begin, end)

\* slash.split("/")[-1]
last(parts) == parts[Len(parts)]

\* int(...) of the last segment, an exception if it is no number.
int_of(segment) ==
    IF int_ok(segment) THEN Return(int(segment)) ELSE Raise("ValueError")

\* A plausible slip: the host bits set in place of the network bits.
mask_from_host(n) ==
    IF Raised(n) THEN n ELSE set_bits(PyInt(0), 0, 32 - n.val)

get_subnet_mask_value_host(slash) ==
    mask_from_host(int_of(last(split(slash, "/"))))

mask_from(n) ==
    IF Raised(n) THEN n
    ELSE LET begin == 32 - n.val
             end == 32
         IN set_bits(PyInt(0), begin, end)

get_subnet_mask_value(slash) == mask_from(int_of(last(split(slash, "/"))))

(***************************************************************************)
(* ips_same_subnet, get_network                                            *)
(***************************************************************************)
\* The body of ips_same_subnet once its three calls have been made; the
\* first exception raised, in call order, is the one that propagates.
same_masked_unmasked(mask, ip1_value, ip2_value) ==
    IF Raised(mask) THEN mask
    ELSE IF Raised(ip1_value) THEN ip1_value
    ELSE IF Raised(ip2_value) THEN ip2_value
    ELSE Return(BitAnd(ip1_value.val, mask.val) = ip2_value.val)

same_masked(mask, ip1_value, ip2_value) ==
    IF Raised(mask) THEN mask
    ELSE IF Raised(ip1_value) THEN ip1_value
    ELSE IF Raised(ip2_value) THEN ip2_value
    ELSE Return(BitAnd(ip1_value.val, mask.val)
                = BitAnd(ip2_value.val, mask.val))

\* A plausible slip: the second address compared unmasked.
ips_same_subnet_unmasked(ip1, ip2, slash) ==
    same_masked_unmasked(get_subnet_mask_value(slash), ipv4_to_value(ip1),
                         ipv4_to_value(ip2))

ips_same_subnet(ip1, ip2, slash) ==
    same_masked(get_subnet_mask_value(slash), ipv4_to_value(ip1),
                ipv4_to_value(ip2))

get_network(ip_value, netmask) == BitAnd(ip_value, netmask)

(***************************************************************************)
(* find_router_for_ip.  A router table is a Python dict: a sequence of     *)
(* [ip, netmask] entries with distinct ip, in insertion order, which is    *)
(* the order routers.items() yields.                                       *)
(***************************************************************************)
RECURSIVE find_router_loop(_, _, _)
RECURSIVE find_router_test(_, _, _, _)
find_router_loop(table, addr, i) ==
    IF i > Len(table) THEN Return(None)
    ELSE find_router_test(
             table, addr, i,
             ips_same_subnet(addr, table[i].ip, table[i].netmask))

find_router_test(table, addr, i, same) ==
    IF Raised(same) THEN same
    ELSE IF same.val THEN Return(table[i].ip)
    ELSE find_router_loop(table, addr, i + 1)

\* sorted() of a list of strings (insertion sort, stable).
RECURSIVE sort_insert(_, _)
sort_insert(sorted, s) ==
    IF sorted = <<>> THEN <<s>>
    ELSE IF str_lt(s, sorted[1]) THEN <<s>> \o sorted
    ELSE <<sorted[1]>> \o sort_insert(Tail(sorted), s)

RECURSIVE sorted_strs(_)
sorted_strs(list) ==
    IF list = <<>> THEN <<>>
    ELSE sort_insert(sorted_strs(SubSeq(list, 1, Len(list) - 1)),
                     list[Len(list)])

\* The entries of a table in ascending key order.
by_key(table) ==
    LET keys == sorted_strs([i \in 1..Len(table) |-> table[i].ip])
    IN [k \in 1..Len(table) |->
           table[CHOOSE i \in 1..Len(table) : table[i].ip = keys[k]]]

\* A plausible slip: falling off the loop returns the last router seen.
last_if_none(table, r) ==
    IF ~Raised(r) /\ r.val = None /\ table # <<>>
    THEN Return(table[Len(table)].ip)
    ELSE r

find_router_for_ip_last(table, addr) ==
    last_if_none(table, find_router_loop(table, addr, 1))

\* A variant that iterates the routers in ascending key order.
find_router_for_ip_sorted(table, addr) ==
    find_router_loop(by_key(table), addr, 1)

find_router_for_ip(table, addr) == find_router_loop(table, addr, 1)

(***************************************************************************)
(* The report printers.  A printed line is a record of its formatted       *)
(* fields; the fixed text between the fields is left out.                  *)
(***************************************************************************)
\* f"{s:>15s}": s right-aligned in a field of the given width.
RECURSIVE rjust(_, _)
rjust(s, width) == IF Len(s) >= width THEN s ELSE rjust(<<" ">> \o s, width)

Header(text) == [kind |-> "header", text |-> text]

BlankLine == [kind |-> "blank"]

\* What a printer leaves behind: the lines it printed and the exception
\* that ended it, if any.
Printed(out, exc) == [out |-> out, exc |-> exc]

netmask_of(table, router_ip) ==
    table[CHOOSE k \in 1..Len(table) : table[k].ip = router_ip].netmask

RECURSIVE print_routers_loop(_, _, _, _)
RECURSIVE print_routers_line(_, _, _, _, _, _)
print_routers_loop(table, routers_list, i, out) ==
    IF i > Len(routers_list) THEN Printed(out, "")
    ELSE print_routers_line(
             table, routers_list, i, out,
             get_subnet_mask_value(netmask_of(table, routers_list[i])),
             ipv4_to_value(routers_list[i]))

print_routers_line(table, routers_list, i, out, netmask_value, router_ip_value) ==
    IF Raised(netmask_value) THEN Printed(out, netmask_value.exc)
    ELSE IF Raised(router_ip_value) THEN Printed(out, router_ip_value.exc)
    ELSE print_routers_loop(
             table, routers_list, i + 1,
             Append(out,
                    [kind |-> "router",
                     router |-> rjust(routers_list[i], 15),
                     netmask |-> value_to_ipv4(netmask_value.val),
                     network |->
                         value_to_ipv4(get_network(router_ip_value.val,
                                                   netmask_value.val))]))

print_routers(table) ==
    print_routers_loop(table,
                       sorted_strs([k \in 1..Len(table) |-> table[k].ip]),
                       1, <<Header("Routers:")>>)

\* Python's < on two lists of strings.
pair_lt(p, q) == str_lt(p[1], q[1]) \/ (p[1] = q[1] /\ str_lt(p[2], q[2]))

RECURSIVE sort_insert_pair(_, _)
sort_insert_pair(sorted, p) ==
    IF sorted = <<>> THEN <<p>>
    ELSE IF pair_lt(p, sorted[1]) THEN <<p>> \o sorted
    ELSE <<sorted[1]>> \o sort_insert_pair(Tail(sorted), p)

RECURSIVE sorted_pairs(_)
sorted_pairs(list) ==
    IF list = <<>> THEN <<>>
    ELSE sort_insert_pair(sorted_pairs(SubSeq(list, 1, Len(list) - 1)),
                          list[Len(list)])

RECURSIVE print_same_subnets_loop(_, _, _)
RECURSIVE print_same_subnets_line(_, _, _, _)
print_same_subnets_loop(src_dest_pairs_list, i, out) ==
    IF i > Len(src_dest_pairs_list) THEN Printed(out, "")
    ELSE print_same_subnets_line(
             src_dest_pairs_list, i, out,
             ips_same_subnet(src_dest_pairs_list[i][1],
                             src_dest_pairs_list[i][2], <<"/", "2", "4">>))

print_same_subnets_line(src_dest_pairs_list, i, out, same) ==
    IF Raised(same) THEN Printed(out, same.exc)
    ELSE print_same_subnets_loop(
             src_dest_pairs_list, i + 1,
             Append(out,
                    [kind |-> "pair",
                     src |-> rjust(src_dest_pairs_list[i][1], 15),
                     dest |-> rjust(src_dest_pairs_list[i][2], 15),
                     text |-> IF same.val THEN "same subnet"
                              ELSE "different subnets"]))

print_same_subnets(pairs) ==
    print_same_subnets_loop(sorted_pairs(pairs), 1, <<Header("IP Pairs:")>>)

\* sorted(set(...)) of a set of strings.
RECURSIVE sorted_set(_)
sorted_set(S) ==
    IF S = {} THEN <<>>
    ELSE LET least == CHOOSE x \in S : \A y \in S : ~str_lt(y, x)
         IN <<least>> \o sorted_set(S \ {least})

\* all_ips: every source and destination, once each, ascending.
all_ips_of(pairs) ==
    sorted_set({pairs[i][k] : i \in 1..Len(pairs), k \in 1..2})

\* router_host_map[router].append(ip), the key created on first use.  The
\* dict is a sequence of [key, ips] in insertion order.
map_append(map, key, addr) ==
    IF \E k \in 1..Len(map) : map[k].key = key
    THEN [k \in 1..Len(map) |->
             IF map[k].key = key
             THEN [key |-> key, ips |-> Append(map[k].ips, addr)]
             ELSE map[k]]
    ELSE Append(map, [key |-> key, ips |-> <<addr>>])

\* The first loop of print_ip_routers: [map, exc].
RECURSIVE build_router_host_map(_, _, _, _)
RECURSIVE build_router_host_map_put(_, _, _, _, _)
build_router_host_map(table, all_ips, i, map) ==
    IF i > Len(all_ips) THEN [map |-> map, exc |-> ""]
    ELSE build_router_host_map_put(table, all_ips, i, map,
                                   find_router_for_ip(table, all_ips[i]))

build_router_host_map_put(table, all_ips, i, map, router) ==
    IF Raised(router) THEN [map |-> map, exc |-> router.exc]
    ELSE build_router_host_map(table, all_ips, i + 1,
                               map_append(map, router.val, all_ips[i]))

\* sorted(router_host_map.keys()): None and a string do not compare, so a
\* list holding both raises TypeError; a list of one element compares
\* nothing.
map_keys(map) == [k \in 1..Len(map) |-> map[k].key]

sorted_keys(map) ==
    IF Len(map) >= 2 /\ \E k \in 1..Len(map) : map[k].key = None
    THEN Raise("TypeError")
    ELSE IF Len(map) = 1 THEN Return(map_keys(map))
    ELSE Return(sorted_strs(map_keys(map)))

bucket_of(map, key) == map[CHOOSE k \in 1..Len(map) : map[k].key = key].ips

\* The second loop: None has no format spec ">15s", so its line raises
\* TypeError.
RECURSIVE print_ip_routers_loop(_, _, _, _)
print_ip_routers_loop(map, keys, i, out) ==
    IF i > Len(keys) THEN Printed(out, "")
    ELSE IF keys[i] = None THEN Printed(out, "TypeError")
    ELSE print_ip_routers_loop(
             map, keys, i + 1,
             Append(out,
                    [kind |-> "ip_router",
                     router |-> rjust(keys[i], 15),
                     ips |-> bucket_of(map, keys[i])]))

with_map(printed, map) ==
    [out |-> printed.out, exc |-> printed.exc, map |-> map]

\* The rest of print_ip_routers once the dictionary is built and its keys
\* sorted: [out, exc, map].
print_ip_routers_sorted(head, map, keys) ==
    IF Raised(keys) THEN [out |-> head, exc |-> keys.exc, map |-> map]
    ELSE with_map(print_ip_routers_loop(map, keys.val, 1, head), map)

print_ip_routers_built(head, built) ==
    IF built.exc # "" THEN [out |-> head, exc |-> built.exc, map |-> built.map]
    ELSE print_ip_routers_sorted(head, built.map, sorted_keys(built.map))

print_ip_routers(table, pairs) ==
    print_ip_routers_built(
        <<Header("Routers and corresponding IPs:")>>,
        build_router_host_map(table, all_ips_of(pairs), 1, <<>>))

(***************************************************************************)
(* Inputs of the harnesses.                                                *)
(***************************************************************************)
RECURSIVE join_dot(_)
join_dot(parts) ==
    IF Len(parts) = 1 THEN parts[1]
    ELSE join_dot(SubSeq(parts, 1, Len(parts) - 1))
         \o <<".">> \o parts[Len(parts)]

\* The canonical dotted form of four octets.
Dotted(o) == join_dot([i \in 1..Len(o) |-> str(o[i])])

\* The 32-bit value of four octets, first octet most significant.
ValueOf(o) == <<o[1] * 256 + o[2], o[3] * 256 + o[4]>>

OctetSamples == {0, 1, 9, 10, 99, 100, 255}

OctetTuples == OctetSamples \X OctetSamples \X OctetSamples \X OctetSamples

\* The addresses of the docstrings and tests.
ExampleOctets ==
    {<<255, 255, 0, 0>>, <<1, 2, 3, 4>>, <<10, 23, 121, 17>>,
     <<10, 23, 121, 225>>, <<10, 23, 230, 22>>, <<10, 24, 121, 225>>}

PartSamples ==
    {<<"7">>, <<"2", "5", "5">>, <<"2", "5", "6">>, <<"0", "1">>,
     <<"x">>, <<>>, <<"-", "1">>}

PartLists == UNION {[1..k -> PartSamples] : k \in 1..MaxParts}

StrEntry(s) == [kind |-> "str", str |-> s, val |-> <<>>, exc |-> ""]

ValEntry(v) == [kind |-> "val", str |-> <<>>, val |-> v, exc |-> ""]

RaiseEntry(e) == [kind |-> "raise", str |-> <<>>, val |-> <<>>, exc |-> e]

(***************************************************************************)
(* Idle values of the harnesses a specification does not run.              *)
(***************************************************************************)
CodecIdle == codec_hist = <<>>

MaskIdle == mask_in = <<>> /\ mask_out = <<>>

RouterIdle ==
    /\ routers = <<>>
    /\ routers_alt = <<>>
    /\ ip = <<>>
    /\ find_out = <<>>
    /\ same_out = <<>>

DriverIdle ==
    /\ argv = <<>>
    /\ src_dest_pairs = <<>>
    /\ pc = "idle"
    /\ stdout = <<>>
    /\ stderr = <<>>
    /\ router_host_map = <<>>

(***************************************************************************)
(* Codec harness: an address or a value is drawn, and the two conversions  *)
(* are applied in turn, each to the result of the one before.              *)
(***************************************************************************)
CodecLast == codec_hist[Len(codec_hist)]

CodecInit ==
    /\ \/ \E o \in OctetTuples \cup ExampleOctets :
              \/ codec_hist = <<StrEntry(Dotted(o))>>
              \/ codec_hist = <<ValEntry(ValueOf(o))>>
       \/ \E p \in PartLists : codec_hist = <<StrEntry(join_dot(p))>>
    /\ MaskIdle /\ RouterIdle /\ DriverIdle

EntryOf(r) == IF Raised(r) THEN RaiseEntry(r.exc) ELSE ValEntry(r.val)

Call_ipv4_to_value ==
    /\ Len(codec_hist) \in 1..2
    /\ CodecLast.kind = "str"
    /\ codec_hist' = Append(codec_hist, EntryOf(ipv4_to_value(CodecLast.str)))
    /\ UNCHANGED <<maskVars, routerVars, driverVars>>

Call_value_to_ipv4 ==
    /\ Len(codec_hist) \in 1..2
    /\ CodecLast.kind = "val"
    /\ codec_hist' = Append(codec_hist, StrEntry(value_to_ipv4(CodecLast.val)))
    /\ UNCHANGED <<maskVars, routerVars, driverVars>>

CodecNext == Call_ipv4_to_value \/ Call_value_to_ipv4

SpecCodec == CodecInit /\ [][CodecNext]_vars

(***************************************************************************)
(* What the claims mean by a well-formed address.                          *)
(***************************************************************************)
\* A canonical decimal octet: digits only, no leading zero, at most 255.
CanonicalOctet(part) ==
    /\ Len(part) \in 1..3
    /\ \A i \in 1..Len(part) : IsDigit(part[i])
    /\ (Len(part) > 1 => part[1] # "0")
    /\ digits_val(part) <= 255

WellFormed(s) ==
    /\ Len(split(s, ".")) = 4
    /\ \A i \in 1..4 : CanonicalOctet(split(s, ".")[i])

\* A numeric part in 0..255, leading zeros or not.
NumericOctet(part) ==
    /\ part # <<>>
    /\ \A i \in 1..Len(part) : IsDigit(part[i])
    /\ digits_val(part) <= 255

Malformed(s) ==
    \/ Len(split(s, ".")) # 4
    \/ \E i \in 1..Len(split(s, ".")) : ~NumericOctet(split(s, ".")[i])

OctetsOf(s) == [i \in 1..4 |-> digits_val(split(s, ".")[i])]

(***************************************************************************)
(* Claims on the codec.                                                    *)
(***************************************************************************)
\* C1: the conversions are mutual inverses: a 32-bit value converted to an
\* address and back is the same value, and a well-formed address (four
\* canonical octets) converted to a value and back is the same address.
C1_RoundTrip ==
    /\ (Len(codec_hist) = 3 /\ codec_hist[1].kind = "val")
           => /\ codec_hist[3].kind = "val"
              /\ codec_hist[3].val = codec_hist[1].val
    /\ (Len(codec_hist) = 3 /\ codec_hist[1].kind = "str"
        /\ WellFormed(codec_hist[1].str))
           => /\ codec_hist[3].kind = "str"
              /\ codec_hist[3].str = codec_hist[1].str

C1_Witness ==
    /\ Len(codec_hist) = 3
    /\ codec_hist[1].kind = "str"
    /\ codec_hist[1].str = Dotted(<<10, 0, 255, 100>>)
    /\ codec_hist[2].val = <<2560, 65380>>
    /\ codec_hist[3].str = codec_hist[1].str

\* C2: a well-formed address a.b.c.d converts to a*2^24 + b*2^16 + c*2^8 + d,
\* a value in 0..2^32-1; "255.255.0.0" gives 0xffff0000 and "1.2.3.4" gives
\* 0x01020304.
C2_Value ==
    (Len(codec_hist) >= 2 /\ codec_hist[1].kind = "str"
     /\ WellFormed(codec_hist[1].str))
        => /\ codec_hist[2].kind = "val"
           /\ codec_hist[2].val = ValueOf(OctetsOf(codec_hist[1].str))
           /\ codec_hist[2].val[1] \in 0..(2 ^ 16 - 1)
           /\ codec_hist[2].val[2] \in 0..(2 ^ 16 - 1)
           /\ (codec_hist[1].str = Dotted(<<255, 255, 0, 0>>)
                   => codec_hist[2].val = <<65535, 0>>)
           /\ (codec_hist[1].str = Dotted(<<1, 2, 3, 4>>)
                   => codec_hist[2].val = <<258, 772>>)

C2_Witness ==
    /\ Len(codec_hist) = 2
    /\ codec_hist[1].str = <<"1", ".", "2", ".", "3", ".", "4">>
    /\ codec_hist[2].val = <<258, 772>>

\* C8: ipv4_to_value fails with an error, and returns no numeric value,
\* whenever the address has fewer or more than four dot-separated parts or
\* a part is non-numeric or outside 0..255.
C8_MalformedRaises ==
    (Len(codec_hist) >= 2 /\ codec_hist[1].kind = "str"
     /\ Malformed(codec_hist[1].str))
        => codec_hist[2].kind = "raise"

(***************************************************************************)
(* Mask harness: one call of get_subnet_mask_value, or one call of         *)
(* ips_same_subnet followed by a second call on the same two addresses     *)
(* under another prefix length.  Prefix lengths run past 32, where the     *)
(* shift count goes negative.                                              *)
(***************************************************************************)
AddrSamples ==
    {<<10, 23, 121, 17>>, <<10, 23, 121, 225>>, <<10, 23, 230, 22>>,
     <<10, 24, 121, 225>>, <<138, 23, 121, 17>>, <<10, 23, 121, 16>>}

\* What may stand before the slash.
PrefixTexts == {<<>>, Dotted(<<10, 20, 30, 40>>), Dotted(<<255, 255, 255, 255>>)}

Slash(n) == <<"/">> \o str(n)

MaskInit ==
    /\ mask_in = [op |-> "start"]
    /\ mask_out = <<>>
    /\ CodecIdle /\ RouterIdle /\ DriverIdle

Call_get_subnet_mask_value ==
    /\ mask_in.op = "start"
    /\ \E pre \in PrefixTexts, n \in 0..MaxPrefix :
           /\ mask_in' = [op |-> "mask", pre |-> pre, n |-> n]
           /\ mask_out' = <<get_subnet_mask_value(pre \o Slash(n))>>
    /\ UNCHANGED <<codecVars, routerVars, driverVars>>

Call_ips_same_subnet ==
    /\ mask_in.op = "start"
    /\ \E o1 \in AddrSamples, o2 \in AddrSamples, n \in 0..MaxPrefix :
           /\ mask_in' = [op |-> "same", o1 |-> o1, o2 |-> o2, n |-> n]
           /\ mask_out' = <<ips_same_subnet(Dotted(o1), Dotted(o2), Slash(n))>>
    /\ UNCHANGED <<codecVars, routerVars, driverVars>>

Call_ips_same_subnet_again ==
    /\ mask_in.op = "same"
    /\ \E m \in 0..MaxPrefix :
           /\ mask_in' = [op |-> "same2", o1 |-> mask_in.o1, o2 |-> mask_in.o2,
                          n |-> mask_in.n, m |-> m]
           /\ mask_out' =
                  Append(mask_out,
                         ips_same_subnet(Dotted(mask_in.o1), Dotted(mask_in.o2),
                                         Slash(m)))
    /\ UNCHANGED <<codecVars, routerVars, driverVars>>

MaskNext ==
    \/ Call_get_subnet_mask_value
    \/ Call_ips_same_subnet
    \/ Call_ips_same_subnet_again

SpecMask == MaskInit /\ [][MaskNext]_vars

(***************************************************************************)
(* Claims on the mask and on the same-subnet test.                         *)
(***************************************************************************)
\* 2^32 - 2^(32-n) in limbs.
ExpectedMask(n) ==
    IF n <= 16 THEN <<2 ^ 16 - 2 ^ (16 - n), 0>>
    ELSE <<2 ^ 16 - 1, 2 ^ 16 - 2 ^ (32 - n)>>

\* The top n bits of the address with octets o, n in 0..32.
TopBits(o, n) ==
    IF n <= 16 THEN <<(o[1] * 256 + o[2]) \div (2 ^ (16 - n)), 0>>
    ELSE <<o[1] * 256 + o[2], (o[3] * 256 + o[4]) \div (2 ^ (32 - n))>>

\* C3: for n in 0..32, get_subnet_mask_value("/n") and
\* get_subnet_mask_value("<address>/n") return 2^32 - 2^(32-n), the n
\* high-order bits of a 32-bit word; the text before the slash is ignored.
C3_Mask ==
    (mask_in.op = "mask" /\ mask_in.n \in 0..32)
        => /\ ~Raised(mask_out[1])
           /\ mask_out[1].val = ExpectedMask(mask_in.n)
           /\ (mask_in.n = 0 => mask_out[1].val = <<0, 0>>)
           /\ (mask_in.n = 16 => mask_out[1].val = <<65535, 0>>)
           /\ (mask_in.n = 23 => mask_out[1].val = <<65535, 65024>>)
           /\ (mask_in.n = 32 => mask_out[1].val = <<65535, 65535>>)

C3_Witness ==
    /\ mask_in.op = "mask"
    /\ mask_in.pre = Dotted(<<10, 20, 30, 40>>)
    /\ mask_in.n = 23
    /\ mask_out[1].val = <<65535, 65024>>

\* C4: for n in 0..32, ips_same_subnet(ip1, ip2, "/n") is true exactly when
\* the top n bits of the two address values are equal; with n = 0 it is
\* always true and with n = 32 it is true only for equal addresses.
C4_SameSubnet ==
    (mask_in.op = "same" /\ mask_in.n \in 0..32)
        => /\ ~Raised(mask_out[1])
           /\ mask_out[1].val
                  = (TopBits(mask_in.o1, mask_in.n) = TopBits(mask_in.o2, mask_in.n))
           /\ (mask_in.n = 0 => mask_out[1].val)
           /\ (mask_in.n = 32 => (mask_out[1].val = (mask_in.o1 = mask_in.o2)))

C4_Witness ==
    /\ mask_in.op = "same"
    /\ mask_in.o1 = <<10, 23, 121, 17>>
    /\ mask_in.o2 = <<10, 23, 121, 225>>
    /\ mask_in.n = 23
    /\ mask_out[1].val = TRUE

\* C9: membership is monotone in the prefix length: for 0 <= m <= n <= 32,
\* two addresses in the same subnet under /n are in the same subnet under /m.
C9_Monotone ==
    (mask_in.op = "same2" /\ mask_in.m <= mask_in.n /\ mask_in.n <= 32)
        => /\ ~Raised(mask_out[1]) /\ ~Raised(mask_out[2])
           /\ (mask_out[1].val => mask_out[2].val)

C9_Witness ==
    /\ mask_in.op = "same2"
    /\ mask_in.o1 = <<10, 23, 121, 17>>
    /\ mask_in.o2 = <<10, 23, 121, 225>>
    /\ mask_in.n = 24
    /\ mask_in.m = 16
    /\ mask_out[1].val = TRUE
    /\ mask_out[2].val = TRUE

(***************************************************************************)
(* Lookup harness: a router table is drawn, an address is looked up in it  *)
(* and tested against each router with ips_same_subnet, and then looked up *)
(* again in a table holding the same routers inserted in another order.    *)
(***************************************************************************)
RouterOctets == {<<1, 2, 3, 1>>, <<1, 2, 4, 1>>, <<1, 2, 0, 1>>}

NetmaskSamples == {Slash(0), Slash(16), Slash(24), Slash(33)}

LookupOctets ==
    RouterOctets \cup {<<1, 2, 3, 5>>, <<1, 2, 5, 6>>, <<9, 9, 9, 9>>}

RouterEntries ==
    {[ip |-> Dotted(o), netmask |-> nm] : o \in RouterOctets, nm \in NetmaskSamples}

\* Dicts of at most MaxRouters routers: sequences with distinct keys.
Tables ==
    UNION {{t \in [1..k -> RouterEntries] :
                \A i \in 1..k, j \in 1..k : i # j => t[i].ip # t[j].ip}
           : k \in 0..MaxRouters}

InsertionOrders(k) ==
    {f \in [1..k -> 1..k] : \A i \in 1..k, j \in 1..k : i # j => f[i] # f[j]}

RouterInit ==
    /\ routers \in Tables
    /\ routers_alt = <<>>
    /\ ip = <<>>
    /\ find_out = <<>>
    /\ same_out = <<>>
    /\ CodecIdle /\ MaskIdle /\ DriverIdle

Call_find_router_for_ip ==
    /\ find_out = <<>>
    /\ \E o \in LookupOctets :
           /\ ip' = Dotted(o)
           /\ find_out' = <<find_router_for_ip(routers, Dotted(o))>>
           /\ same_out' =
                  [i \in 1..Len(routers) |->
                      ips_same_subnet(Dotted(o), routers[i].ip, routers[i].netmask)]
    /\ UNCHANGED <<routers, routers_alt, codecVars, maskVars, driverVars>>

Call_find_router_for_ip_reordered ==
    /\ Len(find_out) = 1
    /\ \E f \in InsertionOrders(Len(routers)) :
           LET alt == [i \in 1..Len(routers) |-> routers[f[i]]]
           IN /\ routers_alt' = alt
              /\ find_out' = Append(find_out, find_router_for_ip(alt, ip))
    /\ UNCHANGED <<routers, ip, same_out, codecVars, maskVars, driverVars>>

RouterNext == Call_find_router_for_ip \/ Call_find_router_for_ip_reordered

SpecRouter == RouterInit /\ [][RouterNext]_vars

(***************************************************************************)
(* Claims on the router lookup.                                            *)
(***************************************************************************)
\* A netmask "/n" with n a canonical decimal in 0..32.
WellFormedNetmask(nm) ==
    /\ Len(nm) \in 2..3
    /\ nm[1] = "/"
    /\ CanonicalOctet(Tail(nm))
    /\ digits_val(Tail(nm)) <= 32

WellFormedTable(t) ==
    \A i \in 1..Len(t) : WellFormed(t[i].ip) /\ WellFormedNetmask(t[i].netmask)

Keys(t) == {t[i].ip : i \in 1..Len(t)}

\* The subnet test of the looked-up address and entry e of table t said yes.
Matches(t, e) ==
    \E i \in 1..Len(routers) : routers[i] = t[e] /\ same_out[i] = Return(TRUE)

PrefixOf(e) == digits_val(Tail(e.netmask))

\* Two routers' subnets share no address: they differ within the shorter
\* of the two prefixes.
Disjoint(e1, e2) ==
    LET k == IF PrefixOf(e1) < PrefixOf(e2) THEN PrefixOf(e1) ELSE PrefixOf(e2)
    IN TopBits(OctetsOf(e1.ip), k) # TopBits(OctetsOf(e2.ip), k)

PairwiseDisjoint(t) ==
    \A i \in 1..Len(t), j \in 1..Len(t) : i # j => Disjoint(t[i], t[j])

\* The least key among the routers that match under the
\* subnet test, None when none does.
FirstMatchByKey(t) ==
    IF \A i \in 1..Len(t) : ~Matches(t, i) THEN None
    ELSE LET i == CHOOSE i \in 1..Len(t) :
                      /\ Matches(t, i)
                      /\ \A j \in 1..Len(t) :
                             Matches(t, j) => ~str_lt(t[j].ip, t[i].ip)
         IN t[i].ip

\* r is the first entry of t, in t's own order, that matches.
FirstMatchInOrder(t, r) ==
    \/ /\ r = None
       /\ \A i \in 1..Len(t) : ~Matches(t, i)
    \/ \E i \in 1..Len(t) :
           /\ r = t[i].ip
           /\ Matches(t, i)
           /\ \A j \in 1..(i - 1) : ~Matches(t, j)

LookupDone == Len(find_out) >= 1 /\ WellFormedTable(routers) /\ WellFormed(ip)

ReorderDone == Len(find_out) = 2 /\ WellFormedTable(routers) /\ WellFormed(ip)

\* C5: on a well-formed table and address, find_router_for_ip raises nothing
\* and returns None or a key of the table; a returned router passes the
\* subnet test, and None is returned exactly when no router passes it.
C5_Find ==
    LookupDone
        => /\ ~Raised(find_out[1])
           /\ find_out[1].val \in Keys(routers) \cup {None}
           /\ \A i \in 1..Len(routers) :
                  find_out[1].val = routers[i].ip => Matches(routers, i)
           /\ (find_out[1].val = None)
                  <=> (\A i \in 1..Len(routers) : ~Matches(routers, i))

C5_Witness ==
    /\ Len(find_out) = 1
    /\ routers = <<[ip |-> Dotted(<<1, 2, 3, 1>>), netmask |-> Slash(24)],
                   [ip |-> Dotted(<<1, 2, 4, 1>>), netmask |-> Slash(24)]>>
    /\ ip = Dotted(<<1, 2, 5, 6>>)
    /\ find_out[1] = Return(None)

\* C6, as claimed: the router returned is the first match in ascending key
\* order, so two tables holding the same routers in different insertion
\* orders give the same result.
C6_KeyOrder ==
    ReorderDone
        => /\ find_out[1] = Return(FirstMatchByKey(routers))
           /\ find_out[2] = find_out[1]

\* C6, amended: the router returned is the first match in the table's own
\* insertion order; two insertion orders of the same routers give the same
\* result whenever at most one router matches the address.
C6_InsertionOrder ==
    /\ LookupDone
           => /\ ~Raised(find_out[1])
              /\ FirstMatchInOrder(routers, find_out[1].val)
    /\ ReorderDone
           => /\ ~Raised(find_out[2])
              /\ FirstMatchInOrder(routers_alt, find_out[2].val)
              /\ (Cardinality({i \in 1..Len(routers) : Matches(routers, i)}) <= 1
                      => find_out[2] = find_out[1])

C6_Witness ==
    /\ Len(find_out) = 2
    /\ routers = <<[ip |-> Dotted(<<1, 2, 3, 1>>), netmask |-> Slash(24)],
                   [ip |-> Dotted(<<1, 2, 0, 1>>), netmask |-> Slash(16)]>>
    /\ routers_alt = <<routers[2], routers[1]>>
    /\ ip = Dotted(<<1, 2, 3, 5>>)
    /\ find_out[1] = Return(Dotted(<<1, 2, 3, 1>>))
    /\ find_out[2] = Return(Dotted(<<1, 2, 0, 1>>))

\* C10: with netmask prefixes in 0..32, looking up an address that is a key
\* of the table never returns None, and returns that key when the routers'
\* subnets are pairwise disjoint.
C10_RouterResolves ==
    (LookupDone /\ ip \in Keys(routers))
        => /\ ~Raised(find_out[1])
           /\ find_out[1].val # None
           /\ (PairwiseDisjoint(routers) => find_out[1].val = ip)

C10_Witness ==
    /\ Len(find_out) = 1
    /\ routers = <<[ip |-> Dotted(<<1, 2, 3, 1>>), netmask |-> Slash(24)],
                   [ip |-> Dotted(<<1, 2, 4, 1>>), netmask |-> Slash(24)]>>
    /\ ip = Dotted(<<1, 2, 4, 1>>)
    /\ PairwiseDisjoint(routers)
    /\ find_out[1] = Return(ip)

(***************************************************************************)
(* Driver: main reads the input file and prints the three report           *)
(* sections.  An uncaught exception ends the process with a traceback.     *)
(***************************************************************************)
DriverRouters ==
    {[ip |-> Dotted(<<1, 2, 3, 1>>), netmask |-> Slash(24)],
     [ip |-> Dotted(<<1, 2, 4, 1>>), netmask |-> Slash(24)],
     [ip |-> Dotted(<<1, 2, 0, 1>>), netmask |-> Slash(16)]}

DriverTables ==
    UNION {{t \in [1..k -> DriverRouters] :
                \A i \in 1..k, j \in 1..k : i # j => t[i].ip # t[j].ip}
           : k \in 0..MaxRouters}

DriverAddrs ==
    {Dotted(<<1, 2, 3, 5>>), Dotted(<<1, 2, 4, 7>>), Dotted(<<9, 9, 9, 9>>)}

PairLists ==
    UNION {[1..k -> {<<a, b>> : a \in DriverAddrs, b \in DriverAddrs}]
           : k \in 0..MaxPairs}

Traceback(where, exc) == [kind |-> "traceback", where |-> where, exc |-> exc]

DriverInit ==
    /\ argv \in {<<"netfuncs.py">>, <<"netfuncs.py", "infile.json">>}
    /\ pc = "main"
    /\ routers = <<>>
    /\ src_dest_pairs = <<>>
    /\ stdout = <<>>
    /\ stderr = <<>>
    /\ router_host_map = <<>>
    /\ routers_alt = <<>> /\ ip = <<>> /\ find_out = <<>> /\ same_out = <<>>
    /\ CodecIdle /\ MaskIdle

lookupIdleVars == <<routers_alt, ip, find_out, same_out>>

\* main with no file argument: usage to stderr, exit status 1.
main_usage ==
    /\ pc = "main"
    /\ Len(argv) < 2
    /\ stderr' = Append(stderr, [kind |-> "usage",
                                 text |-> "usage: netfuncs.py infile.json"])
    /\ pc' = "exit1"
    /\ UNCHANGED <<argv, routers, src_dest_pairs, stdout, router_host_map,
                   lookupIdleVars, codecVars, maskVars>>

\* read_routers and the two lookups in json_data succeed.
main_read_routers ==
    /\ pc = "main"
    /\ Len(argv) >= 2
    /\ \E table \in DriverTables, pairs \in PairLists :
           /\ routers' = table
           /\ src_dest_pairs' = pairs
    /\ pc' = "print_routers"
    /\ UNCHANGED <<argv, stdout, stderr, router_host_map,
                   lookupIdleVars, codecVars, maskVars>>

\* The file cannot be opened or is not JSON.
main_read_fails ==
    /\ pc = "main"
    /\ Len(argv) >= 2
    /\ \E exc \in {"OSError", "JSONDecodeError"} :
           stderr' = Append(stderr, Traceback("read_routers", exc))
    /\ pc' = "raised"
    /\ UNCHANGED <<argv, routers, src_dest_pairs, stdout, router_host_map,
                   lookupIdleVars, codecVars, maskVars>>

\* A section has printed r.out; go on to the next position, or end with a
\* traceback if it raised.
Section(r, where, next, tail) ==
    IF r.exc = ""
    THEN /\ stdout' = stdout \o r.out \o tail
         /\ stderr' = stderr
         /\ pc' = next
    ELSE /\ stdout' = stdout \o r.out
         /\ stderr' = Append(stderr, Traceback(where, r.exc))
         /\ pc' = "raised"

\* print_routers(routers); print()
main_print_routers ==
    /\ pc = "print_routers"
    /\ Section(print_routers(routers), "print_routers",
               "print_same_subnets", <<BlankLine>>)
    /\ UNCHANGED <<argv, routers, src_dest_pairs, router_host_map,
                   lookupIdleVars, codecVars, maskVars>>

\* print_same_subnets(src_dest_pairs); print()
main_print_same_subnets ==
    /\ pc = "print_same_subnets"
    /\ Section(print_same_subnets(src_dest_pairs), "print_same_subnets",
               "print_ip_routers", <<BlankLine>>)
    /\ UNCHANGED <<argv, routers, src_dest_pairs, router_host_map,
                   lookupIdleVars, codecVars, maskVars>>

LastSection(r) ==
    /\ Section(r, "print_ip_routers", "exit0", <<>>)
    /\ router_host_map' = r.map

\* print_ip_routers(routers, src_dest_pairs), then main returns None.
main_print_ip_routers ==
    /\ pc = "print_ip_routers"
    /\ LastSection(print_ip_routers(routers, src_dest_pairs))
    /\ UNCHANGED <<argv, routers, src_dest_pairs,
                   lookupIdleVars, codecVars, maskVars>>

DriverNext ==
    \/ main_usage
    \/ main_read_routers
    \/ main_read_fails
    \/ main_print_routers
    \/ main_print_same_subnets
    \/ main_print_ip_routers

SpecDriver == DriverInit /\ [][DriverNext]_vars

(***************************************************************************)
(* Claim on the third report section.                                      *)
(***************************************************************************)
\* The third section has been started.
Section3Started ==
    \E k \in 1..Len(stdout) :
        stdout[k] = Header("Routers and corresponding IPs:")

\* The bucket lines of the third section, in the order printed.
BucketLines == SelectSeq(stdout, LAMBDA l : l.kind = "ip_router")

\* The key a bucket line is printed under for the router a lookup returns.
BucketKeyOf(a) == rjust(find_router_for_ip(routers, a).val, 15)

Ascending(list) ==
    \A k \in 1..(Len(list) - 1) : str_lt(list[k], list[k + 1])

\* C7: for every router table and list of pairs, also when an address lies
\* in no router's subnet, the third section runs to completion and every
\* distinct address is listed in exactly one bucket, the one of the router
\* find_router_for_ip returns for it (or the no-match bucket); buckets come
\* sorted by router key and each bucket's addresses ascending.
C7_Buckets ==
    (Section3Started /\ pc # "print_ip_routers")
        => /\ pc = "exit0"
           /\ \A i \in 1..Len(src_dest_pairs), k \in 1..2 :
                  LET a == src_dest_pairs[i][k]
                      holding == {b \in 1..Len(BucketLines) :
                                      \E x \in 1..Len(BucketLines[b].ips) :
                                          BucketLines[b].ips[x] = a}
                  IN /\ Cardinality(holding) = 1
                     /\ \A b \in holding : BucketLines[b].router = BucketKeyOf(a)
           /\ Ascending([b \in 1..Len(BucketLines) |-> BucketLines[b].router])
           /\ \A b \in 1..Len(BucketLines) : Ascending(BucketLines[b].ips)

====
